---- MODULE Spec2Model ----
(***************************************************************************)
(* Multisig transaction coordination engine (MultisigService).              *)
(*                                                                          *)
(* The service is stateless: its state is the pending_transactions table,   *)
(* the account policy held by the ledger network (Horizon) and, for every   *)
(* HTTP request in flight, the locals of the async handler that serves it,  *)
(* the reply it is about to send included.                                  *)
(* A handler runs atomically between two awaits; every await (findOne,      *)
(* loadAccount, submitTransaction, save) is a point where other requests    *)
(* interleave.  One action models one such segment, ending with the awaited *)
(* call it issues.                                                          *)
(***************************************************************************)
EXTENDS Integers, Sequences, FiniteSets, TLC

VARIABLES store, chain, broadcasts, pc, req, pending, acct, net, res

vars == <<store, chain, broadcasts, pc, req, pending, acct, net, res>>

----------------------------------------------------------------------------
(* Bounds of the model *)

MaxRecords == 2
MaxEnvSigs == 2
MaxLedger == 2
MaxBroadcasts == 3
MaxThreshold == 2

\* The requests in flight at once: two workers.
Procs == {"w1", "w2"}
Ids == 1..MaxRecords
Ledgers == 1..MaxLedger

----------------------------------------------------------------------------
(* Keys, signatures, envelopes *)

\* Well-formed ed25519 public keys; K3 is on no account.
Keys == {"K1", "K2", "K3"}
BadKey == "INVALID"
ACCOUNT_ID == "K1"
NETWORK == "TESTNET"
BadXdr == [body |-> "bad-xdr", sigs |-> <<>>]
Bodies == {"T1"}

\* A validation that lets every string through.
validatePublicKeyLenient(key) == TRUE

\* validatePublicKey: Keypair.fromPublicKey throws on a malformed key.
validatePublicKey(key) == key \in Keys

\* Keypair.signatureHint: the last 4 bytes of the public key.  Two keys may
\* share them: K3 collides with K1.
signatureHint(key) == IF key = "K2" THEN "hint2" ELSE "hint1"

\* Transaction.hash: digest of the network id and the transaction body; the
\* attached signatures are not part of it.
TxHash(env) == <<NETWORK, env.body>>

\* A verification that accepts every signature.
VerifyAnything(publicKey, msg, sig) == TRUE

\* Keypair.sign / Keypair.verify: a signature is valid under the public key
\* of the key that made it, over the message it was made over.
Sign(key, msg) == [by |-> key, over |-> msg]
Verify(publicKey, msg, sig) == sig.by = publicKey /\ sig.over = msg

DecoratedSignature(key, sig) == [hint |-> signatureHint(key), signature |-> sig]

\* new StellarSdk.Transaction(xdr, passphrase) throws on anything that is not
\* an envelope of a transaction.
Decodable(xdr) == xdr.body \in Bodies

----------------------------------------------------------------------------
(* The account policy on the ledger network *)

Signer(key, weight) == [publicKey |-> key, weight |-> weight]

\* The account of the tests: K1 and K2 with weight 1, medium threshold 2.
PolicyTwoOfTwo ==
    [low |-> 0, med |-> 2, high |-> 3,
     signers |-> <<Signer("K1", 1), Signer("K2", 1)>>]
\* The account after a setOptions: K2 removed, K1 re-weighted and the medium
\* threshold lowered to the degenerate 0.
PolicyK1Only == [low |-> 0, med |-> 0, high |-> 0, signers |-> <<Signer("K1", 2)>>]

Policies == {PolicyTwoOfTwo, PolicyK1Only}

\* rawSigners.reduce((sum, s) => sum + s.weight, 0)
RECURSIVE TotalWeight(_)
TotalWeight(signers) ==
    IF signers = <<>> THEN 0 ELSE Head(signers).weight + TotalWeight(Tail(signers))

\* An account inspection that takes only the number of signers into account.
getAccountMultisigStatusBySigners(account) ==
    [isMultisig |-> Len(account.signers) > 1,
     thresholdLow |-> account.low,
     thresholdMedium |-> account.med,
     thresholdHigh |-> account.high,
     signers |-> account.signers,
     totalWeight |-> TotalWeight(account.signers)]

\* getAccountMultisigStatus, after a loadAccount that succeeded.
getAccountMultisigStatus(account) ==
    [isMultisig |-> \/ Len(account.signers) > 1
                    \/ account.med > 1
                    \/ account.high > 1,
     thresholdLow |-> account.low,
     thresholdMedium |-> account.med,
     thresholdHigh |-> account.high,
     signers |-> account.signers,
     totalWeight |-> TotalWeight(account.signers)]

----------------------------------------------------------------------------
(* Records *)

Absent == [status |-> "ABSENT"]
IsAbsent(r) == r.status = "ABSENT"

NoLedger == <<>>

\* A status check that forgets EXPIRED.
ClosedToSignaturesNoExpired == {"SUBMITTED", "FAILED"}

\* The statuses submitSignature refuses.
ClosedToSignatures == {"SUBMITTED", "EXPIRED", "FAILED"}

RECURSIVE SumWeights(_)
SumWeights(sigs) ==
    IF sigs = <<>> THEN 0 ELSE Head(sigs).weight + SumWeights(Tail(sigs))

SignerKeys(sigs) == {sigs[i].publicKey : i \in DOMAIN sigs}

HasSigned(sigs, key) == \E i \in DOMAIN sigs : sigs[i].publicKey = key

\* A lookup that takes every signer of the account for the one asked for.
FindSignerAny(signers, key) == DOMAIN signers

FindSigner(signers, key) == {i \in DOMAIN signers : signers[i].publicKey = key}

\* Array.prototype.filter
RECURSIVE FilterOut(_, _)
FilterOut(seq, drop) ==
    IF seq = <<>> THEN <<>>
    ELSE IF Head(seq) \in drop THEN FilterOut(Tail(seq), drop)
         ELSE <<Head(seq)>> \o FilterOut(Tail(seq), drop)

RECURSIVE MapKeys(_)
MapKeys(signers) ==
    IF signers = <<>> THEN <<>>
    ELSE <<Head(signers).publicKey>> \o MapKeys(Tail(signers))

\* An inner loop that trusts the hint and does not verify the signature.
RECURSIVE MatchSignersByHint(_, _, _)
MatchSignersByHint(dsig, signers, txHash) ==
    IF signers = <<>> THEN <<>>
    ELSE (IF /\ validatePublicKey(Head(signers).publicKey)
             /\ dsig.hint = signatureHint(Head(signers).publicKey)
          THEN <<[publicKey |-> Head(signers).publicKey,
                  signature |-> dsig.signature,
                  weight |-> Head(signers).weight]>>
          ELSE <<>>)
         \o MatchSignersByHint(dsig, Tail(signers), txHash)

\* The inner loop of extractSignaturesFromEnvelope: one decorated signature
\* against every known signer, in the signers' order.
RECURSIVE MatchSigners(_, _, _)
MatchSigners(dsig, signers, txHash) ==
    IF signers = <<>> THEN <<>>
    ELSE (IF /\ validatePublicKey(Head(signers).publicKey)
             /\ dsig.hint = signatureHint(Head(signers).publicKey)
             /\ Verify(Head(signers).publicKey, txHash, dsig.signature)
          THEN <<[publicKey |-> Head(signers).publicKey,
                  signature |-> dsig.signature,
                  weight |-> Head(signers).weight]>>
          ELSE <<>>)
         \o MatchSigners(dsig, Tail(signers), txHash)

\* The outer loop: every decorated signature of the envelope, in order.
RECURSIVE ExtractLoop(_, _, _)
ExtractLoop(dsigs, signers, txHash) ==
    IF dsigs = <<>> THEN <<>>
    ELSE MatchSigners(Head(dsigs), signers, txHash)
         \o ExtractLoop(Tail(dsigs), signers, txHash)

extractSignaturesFromEnvelope(env, knownSigners) ==
    ExtractLoop(env.sigs, knownSigners, TxHash(env))

appendSignatureToXdr(env, signerPublicKey, sig) ==
    [env EXCEPT !.sigs = Append(@, DecoratedSignature(signerPublicKey, sig))]

\* accountStatus.thresholdMedium ?? 1: only null and undefined fall back.
RequiredThreshold(accountStatus) == accountStatus.thresholdMedium

\* A readiness test that takes any collected weight for enough.
StatusForAnyWeight(collectedWeight, requiredThreshold) ==
    IF collectedWeight >= 1 THEN "READY" ELSE "PENDING"

\* A readiness test that wants more than the threshold.
StatusForAboveThreshold(collectedWeight, requiredThreshold) ==
    IF collectedWeight > requiredThreshold THEN "READY" ELSE "PENDING"

StatusFor(collectedWeight, requiredThreshold) ==
    IF collectedWeight >= requiredThreshold THEN "READY" ELSE "PENDING"

\* A creation that gives every record an expiry at ledger 1.
NewEntityExpiring(id, accountId, env, accountStatus) ==
    LET preloaded == extractSignaturesFromEnvelope(env, accountStatus.signers)
        collected == SumWeights(preloaded)
        required == RequiredThreshold(accountStatus)
    IN  [id |-> id,
         accountId |-> accountId,
         transactionXdr |-> env,
         transactionHash |-> TxHash(env),
         status |-> StatusFor(collected, required),
         requiredThreshold |-> required,
         collectedWeight |-> collected,
         signatures |-> preloaded,
         pendingSigners |-> FilterOut(MapKeys(accountStatus.signers),
                                      SignerKeys(preloaded)),
         expiresAtLedger |-> <<1>>,
         submittedAt |-> "null",
         stellarTxId |-> "null"]

\* A creation that stores every record as READY.
NewEntityReady(id, accountId, env, accountStatus) ==
    LET preloaded == extractSignaturesFromEnvelope(env, accountStatus.signers)
        collected == SumWeights(preloaded)
        required == RequiredThreshold(accountStatus)
    IN  [id |-> id,
         accountId |-> accountId,
         transactionXdr |-> env,
         transactionHash |-> TxHash(env),
         status |-> "READY",
         requiredThreshold |-> required,
         collectedWeight |-> collected,
         signatures |-> preloaded,
         pendingSigners |-> FilterOut(MapKeys(accountStatus.signers),
                                      SignerKeys(preloaded)),
         expiresAtLedger |-> NoLedger,
         submittedAt |-> "null",
         stellarTxId |-> "null"]

\* The entity createPendingTransaction builds.
NewEntity(id, accountId, env, accountStatus) ==
    LET preloaded == extractSignaturesFromEnvelope(env, accountStatus.signers)
        collected == SumWeights(preloaded)
        required == RequiredThreshold(accountStatus)
    IN  [id |-> id,
         accountId |-> accountId,
         transactionXdr |-> env,
         transactionHash |-> TxHash(env),
         status |-> StatusFor(collected, required),
         requiredThreshold |-> required,
         collectedWeight |-> collected,
         signatures |-> preloaded,
         pendingSigners |-> FilterOut(MapKeys(accountStatus.signers),
                                      SignerKeys(preloaded)),
         expiresAtLedger |-> NoLedger,
         submittedAt |-> "null",
         stellarTxId |-> "null"]

\* A submitSignature that takes the threshold for met by what it collected.
SignedEntityLoweringThreshold(rec, signerPublicKey, sig, weight) ==
    LET newWeight == rec.collectedWeight + weight
    IN  [rec EXCEPT
            !.transactionXdr = appendSignatureToXdr(@, signerPublicKey, sig),
            !.collectedWeight = newWeight,
            !.signatures = Append(@, [publicKey |-> signerPublicKey,
                                      signature |-> sig,
                                      weight |-> weight]),
            !.pendingSigners = FilterOut(@, {signerPublicKey}),
            !.requiredThreshold = newWeight,
            !.status = "READY"]

\* A submitSignature that counts signatures instead of adding weights.
SignedEntityCountingOne(rec, signerPublicKey, sig, weight) ==
    LET newWeight == rec.collectedWeight + 1
    IN  [rec EXCEPT
            !.transactionXdr = appendSignatureToXdr(@, signerPublicKey, sig),
            !.collectedWeight = newWeight,
            !.signatures = Append(@, [publicKey |-> signerPublicKey,
                                      signature |-> sig,
                                      weight |-> weight]),
            !.pendingSigners = FilterOut(@, {signerPublicKey}),
            !.status = StatusFor(newWeight, rec.requiredThreshold)]

\* The entity submitSignature saves.
SignedEntity(rec, signerPublicKey, sig, weight) ==
    LET newWeight == rec.collectedWeight + weight
    IN  [rec EXCEPT
            !.transactionXdr = appendSignatureToXdr(@, signerPublicKey, sig),
            !.collectedWeight = newWeight,
            !.signatures = Append(@, [publicKey |-> signerPublicKey,
                                      signature |-> sig,
                                      weight |-> weight]),
            !.pendingSigners = FilterOut(@, {signerPublicKey}),
            !.status = StatusFor(newWeight, rec.requiredThreshold)]

\* The record the submitSignature tests start from (pendingEntity), as found
\* in the table when the service starts; expiresAtLedger is the one column
\* the service itself never sets.
StoredFixture(expiry) ==
    [id |-> 1,
     accountId |-> ACCOUNT_ID,
     transactionXdr |-> [body |-> "T1", sigs |-> <<>>],
     transactionHash |-> TxHash([body |-> "T1", sigs |-> <<>>]),
     status |-> "PENDING",
     requiredThreshold |-> PolicyTwoOfTwo.med,
     collectedWeight |-> 0,
     signatures |-> <<>>,
     pendingSigners |-> <<"K1", "K2">>,
     expiresAtLedger |-> expiry,
     submittedAt |-> "null",
     stellarTxId |-> "null"]

----------------------------------------------------------------------------
(* The pending_transactions table *)

UsedIds == {i \in Ids : ~IsAbsent(store[i])}

\* A duplicate check that looks only at the records still open.
FindByHashAmongOpen(hash) ==
    IF \E i \in UsedIds : /\ store[i].transactionHash = hash
                          /\ store[i].status \in {"PENDING", "READY"}
    THEN CHOOSE i \in UsedIds : /\ store[i].transactionHash = hash
                                /\ store[i].status \in {"PENDING", "READY"}
    ELSE 0

\* findOne({ where: { transactionHash } }): the id of a row, or 0.
FindByHash(hash) ==
    IF \E i \in UsedIds : store[i].transactionHash = hash
    THEN CHOOSE i \in UsedIds : store[i].transactionHash = hash
    ELSE 0

\* The primary key a save of a new entity gets.
FreshId == CHOOSE i \in Ids \ UsedIds : \A j \in Ids \ UsedIds : i <= j

----------------------------------------------------------------------------
(* Requests *)

NoReq == [op |-> "none"]
NoAcct == [thresholdMedium |-> 0, signers |-> <<>>]
NoRes == [code |-> "none"]

InFlight(p) == pc[p] # "idle"

Init ==
    /\ store \in {[i \in Ids |-> Absent]}
                 \cup {[i \in Ids |-> IF i = 1 THEN StoredFixture(e) ELSE Absent] :
                         e \in {NoLedger} \cup {<<l>> : l \in Ledgers \ {MaxLedger}}}
    /\ chain = PolicyTwoOfTwo
    /\ broadcasts = [i \in Ids |-> 0]
    /\ pc = [p \in Procs |-> "idle"]
    /\ req = [p \in Procs |-> NoReq]
    /\ pending = [p \in Procs |-> Absent]
    /\ acct = [p \in Procs |-> NoAcct]
    /\ net = [p \in Procs |-> "none"]
    /\ res = [p \in Procs |-> NoRes]

\* The handler of p returns (a DTO) or throws (an HTTP exception).
Finish(p, r) ==
    /\ pc' = [pc EXCEPT ![p] = "done"]
    /\ res' = [res EXCEPT ![p] = r]

Throw(code) == [code |-> code]
Ok == [code |-> "OK"]

\* The handler of p awaits: it resumes at label.
Goto(p, label) ==
    /\ pc' = [pc EXCEPT ![p] = label]
    /\ UNCHANGED res

Responding == \E p \in Procs : pc[p] = "done"

\* The reply leaves in the same turn of the event loop as the return that made
\* it, before any other handler runs; the worker is free again and the locals
\* of the handler are gone.
Respond(p) ==
    /\ pc[p] = "done"
    /\ pc' = [pc EXCEPT ![p] = "idle"]
    /\ req' = [req EXCEPT ![p] = NoReq]
    /\ pending' = [pending EXCEPT ![p] = Absent]
    /\ acct' = [acct EXCEPT ![p] = NoAcct]
    /\ net' = [net EXCEPT ![p] = "none"]
    /\ res' = [res EXCEPT ![p] = NoRes]
    /\ UNCHANGED <<store, chain, broadcasts>>

\* A request arrives at a free worker.
Begin(p, r) ==
    /\ ~Responding
    /\ pc[p] = "idle"
    /\ req' = [req EXCEPT ![p] = r]

\* The handler of p resumes at label.
At(p, label) == ~Responding /\ pc[p] = label

----------------------------------------------------------------------------
(* createPendingTransaction *)

\* The hashes of the rows, and of the creations past the duplicate check.
KnownHashes ==
    {store[i].transactionHash : i \in UsedIds}
        \cup {TxHash(req[q].xdr) :
                q \in {q \in Procs : pc[q] \in {"cr_found", "cr_acct"}}}

\* A createPendingTransaction that looks the hash up before it validates the
\* account id.
CreateLookupBeforeValidation(p, accountId, xdr) ==
    /\ Begin(p, [op |-> "create", accountId |-> accountId, xdr |-> xdr])
    /\ IF ~Decodable(xdr)
       THEN /\ Finish(p, Throw("BadRequest"))
            /\ UNCHANGED pending
       ELSE LET existing == FindByHash(TxHash(xdr))
            IN  /\ Cardinality(KnownHashes \cup {TxHash(xdr)}) <= MaxRecords
                /\ pending' = [pending EXCEPT ![p] =
                                  IF existing = 0 THEN Absent ELSE store[existing]]
                /\ IF ~validatePublicKey(accountId)
                   THEN Finish(p, Throw("BadRequest"))
                   ELSE Goto(p, "cr_found")
    /\ UNCHANGED <<store, chain, broadcasts, acct, net>>

\* validatePublicKey, decode, hash, await findOne({transactionHash}).
CreateLookup(p, accountId, xdr) ==
    /\ Begin(p, [op |-> "create", accountId |-> accountId, xdr |-> xdr])
    /\ IF ~validatePublicKey(accountId) \/ ~Decodable(xdr)
       THEN /\ Finish(p, Throw("BadRequest"))
            /\ UNCHANGED pending
       ELSE LET existing == FindByHash(TxHash(xdr))
            IN  /\ Cardinality(KnownHashes \cup {TxHash(xdr)}) <= MaxRecords
                /\ pending' = [pending EXCEPT ![p] =
                                  IF existing = 0 THEN Absent ELSE store[existing]]
                /\ Goto(p, "cr_found")
    /\ UNCHANGED <<store, chain, broadcasts, acct, net>>

\* A createPendingTransaction that does not look at what findOne returned.
CreateLoadAccountNoDuplicateCheck(p) ==
    /\ At(p, "cr_found")
    /\ \/ /\ acct' = [acct EXCEPT ![p] = getAccountMultisigStatus(chain)]
          /\ Goto(p, "cr_acct")
       \/ /\ Finish(p, Throw("NotFound"))
          /\ UNCHANGED acct
    /\ UNCHANGED <<store, chain, broadcasts, req, pending, net>>

\* A createPendingTransaction that goes on without the account when
\* getAccountMultisigStatus failed.
CreateLoadAccountSwallowingFailure(p) ==
    /\ At(p, "cr_found")
    /\ \/ /\ ~IsAbsent(pending[p])
          /\ Finish(p, [code |-> "Conflict", existingId |-> pending[p].id])
          /\ UNCHANGED acct
       \/ /\ IsAbsent(pending[p])
          /\ acct' = [acct EXCEPT ![p] = getAccountMultisigStatus(chain)]
          /\ Goto(p, "cr_acct")
       \/ /\ IsAbsent(pending[p])
          /\ Goto(p, "cr_acct")
          /\ UNCHANGED acct
    /\ UNCHANGED <<store, chain, broadcasts, req, pending, net>>

\* if (existing) throw Conflict; await getAccountMultisigStatus(accountId).
CreateLoadAccount(p) ==
    /\ At(p, "cr_found")
    /\ \/ /\ ~IsAbsent(pending[p])
          /\ Finish(p, [code |-> "Conflict", existingId |-> pending[p].id])
          /\ UNCHANGED acct
       \/ /\ IsAbsent(pending[p])
          /\ acct' = [acct EXCEPT ![p] = getAccountMultisigStatus(chain)]
          /\ Goto(p, "cr_acct")
       \/ /\ IsAbsent(pending[p])
          /\ Finish(p, Throw("NotFound"))
          /\ UNCHANGED acct
    /\ UNCHANGED <<store, chain, broadcasts, req, pending, net>>

\* A table without the unique index.
UniqueHashNotEnforced(hash) == FALSE

\* The unique index on transaction_hash refuses a second row with the hash.
UniqueHashViolated(hash) == FindByHash(hash) # 0

\* Build the entity, await save(entity), return the DTO.
CreateSave(p) ==
    /\ At(p, "cr_acct")
    /\ IF UniqueHashViolated(TxHash(req[p].xdr))
       THEN /\ Finish(p, Throw("InternalError"))
            /\ UNCHANGED <<store, pending>>
       ELSE LET saved == NewEntity(FreshId, req[p].accountId, req[p].xdr, acct[p])
            IN  /\ store' = [store EXCEPT ![saved.id] = saved]
                /\ pending' = [pending EXCEPT ![p] = saved]
                /\ Finish(p, Ok)
    /\ UNCHANGED <<chain, broadcasts, req, acct, net>>

----------------------------------------------------------------------------
(* submitSignature *)

\* validatePublicKey(signerPublicKey), await findOne({id}).
SigLoad(p, id, signerPublicKey, sig) ==
    /\ Begin(p, [op |-> "sign", id |-> id, signerPublicKey |-> signerPublicKey,
                 signature |-> sig])
    /\ IF ~validatePublicKey(signerPublicKey)
       THEN /\ Finish(p, Throw("BadRequest"))
            /\ UNCHANGED pending
       ELSE /\ pending' = [pending EXCEPT ![p] = store[id]]
            /\ Goto(p, "sig_loaded")
    /\ UNCHANGED <<store, chain, broadcasts, acct, net>>

\* A submitSignature without the duplicate-signer check.
SigRejectionNoDuplicateCheck(rec, signerPublicKey, sig) ==
    IF IsAbsent(rec) THEN "NotFound"
    ELSE IF rec.status \in ClosedToSignatures THEN "BadRequest"
    ELSE IF ~Verify(signerPublicKey, rec.transactionHash, sig) THEN "BadRequest"
    ELSE "none"

\* A submitSignature that does not verify the signature.
SigRejectionNoVerify(rec, signerPublicKey, sig) ==
    IF IsAbsent(rec) THEN "NotFound"
    ELSE IF rec.status \in ClosedToSignatures THEN "BadRequest"
    ELSE IF HasSigned(rec.signatures, signerPublicKey) THEN "Conflict"
    ELSE "none"

\* A submitSignature that verifies the signature before it looks for an
\* earlier signature of the signer.
SigRejectionVerifyFirst(rec, signerPublicKey, sig) ==
    IF IsAbsent(rec) THEN "NotFound"
    ELSE IF rec.status \in ClosedToSignatures THEN "BadRequest"
    ELSE IF ~Verify(signerPublicKey, rec.transactionHash, sig) THEN "BadRequest"
    ELSE IF HasSigned(rec.signatures, signerPublicKey) THEN "Conflict"
    ELSE "none"

\* The checks on the loaded record, in the order of the code; the first that
\* fails decides the exception.
SigRejection(rec, signerPublicKey, sig) ==
    IF IsAbsent(rec) THEN "NotFound"
    ELSE IF rec.status \in ClosedToSignatures THEN "BadRequest"
    ELSE IF HasSigned(rec.signatures, signerPublicKey) THEN "Conflict"
    ELSE IF ~Verify(signerPublicKey, rec.transactionHash, sig) THEN "BadRequest"
    ELSE "none"

\* A submitSignature that goes on to the signer lookup when loadAccount failed.
SigCheckIgnoringLoadFailure(p) ==
    /\ At(p, "sig_loaded")
    /\ LET why == SigRejection(pending[p], req[p].signerPublicKey, req[p].signature)
       IN  \/ /\ why # "none"
              /\ Finish(p, Throw(why))
              /\ UNCHANGED acct
           \/ /\ why = "none"
              /\ acct' = [acct EXCEPT ![p] = getAccountMultisigStatus(chain)]
              /\ Goto(p, "sig_acct")
           \/ /\ why = "none"
              /\ Goto(p, "sig_acct")
              /\ UNCHANGED acct
    /\ UNCHANGED <<store, chain, broadcasts, req, pending, net>>

\* Not found, status, duplicate and verification checks, then
\* await getAccountMultisigStatus(pending.accountId).
SigCheck(p) ==
    /\ At(p, "sig_loaded")
    /\ LET why == SigRejection(pending[p], req[p].signerPublicKey, req[p].signature)
       IN  \/ /\ why # "none"
              /\ Finish(p, Throw(why))
              /\ UNCHANGED acct
           \/ /\ why = "none"
              /\ acct' = [acct EXCEPT ![p] = getAccountMultisigStatus(chain)]
              /\ Goto(p, "sig_acct")
           \/ /\ why = "none"
              /\ Finish(p, Throw("NotFound"))
              /\ UNCHANGED acct
    /\ UNCHANGED <<store, chain, broadcasts, req, pending, net>>

\* Authorization check, append, new weight and status, await save(pending).
SigSave(p) ==
    /\ At(p, "sig_acct")
    /\ LET found == FindSigner(acct[p].signers, req[p].signerPublicKey)
       IN  IF found = {}
           THEN /\ Finish(p, Throw("BadRequest"))
                /\ UNCHANGED <<store, pending>>
           ELSE LET signerInfo ==
                        acct[p].signers[CHOOSE i \in found : \A j \in found : i <= j]
                    updated == SignedEntity(pending[p], req[p].signerPublicKey,
                                            req[p].signature, signerInfo.weight)
                IN  /\ store' = [store EXCEPT ![updated.id] = updated]
                    /\ pending' = [pending EXCEPT ![p] = updated]
                    /\ Finish(p, Ok)
    /\ UNCHANGED <<chain, broadcasts, req, acct, net>>

----------------------------------------------------------------------------
(* submitToNetwork *)

\* await findOne({id}).
SubmitLoad(p, id) ==
    /\ Begin(p, [op |-> "submit", id |-> id])
    /\ pending' = [pending EXCEPT ![p] = store[id]]
    /\ Goto(p, "sub_loaded")
    /\ UNCHANGED <<store, chain, broadcasts, acct, net>>

\* What server.submitTransaction may answer: the id of the transaction, or a
\* rejection (the promise rejects).
NetworkAnswers == {"stellar-tx-hash", "rejected"}

\* The BadRequestException of submitToNetwork: its message gives the status
\* and the collected and required weight of the record.
NotReadyException(rec) ==
    [code |-> "BadRequest",
     status |-> rec.status,
     collectedWeight |-> rec.collectedWeight,
     requiredThreshold |-> rec.requiredThreshold]

\* A submitToNetwork that refuses only what can no longer be signed.
CanSubmitUnlessClosed(rec) == rec.status \notin ClosedToSignatures

\* A submitToNetwork that refuses only what is still collecting signatures.
CanSubmitUnlessPending(rec) == rec.status # "PENDING"

\* The status submitToNetwork requires.
CanSubmit(rec) == rec.status = "READY"

\* Not found and status checks, then await server.submitTransaction(tx).
SubmitBroadcast(p) ==
    /\ At(p, "sub_loaded")
    /\ \/ /\ IsAbsent(pending[p])
          /\ Finish(p, Throw("NotFound"))
          /\ UNCHANGED <<broadcasts, net>>
       \/ /\ ~IsAbsent(pending[p])
          /\ ~CanSubmit(pending[p])
          /\ Finish(p, NotReadyException(pending[p]))
          /\ UNCHANGED <<broadcasts, net>>
       \/ /\ ~IsAbsent(pending[p])
          /\ CanSubmit(pending[p])
          /\ broadcasts[pending[p].id] < MaxBroadcasts
          /\ broadcasts' = [broadcasts EXCEPT ![pending[p].id] = @ + 1]
          /\ \E answer \in NetworkAnswers : net' = [net EXCEPT ![p] = answer]
          /\ Goto(p, "sub_sent")
    /\ UNCHANGED <<store, chain, req, pending, acct>>

\* A submitToNetwork that does not keep the id the network returned.
SubmittedEntityWithoutTxId(rec, answer) ==
    IF answer = "rejected"
    THEN [rec EXCEPT !.status = "FAILED"]
    ELSE [rec EXCEPT !.status = "SUBMITTED", !.submittedAt = "now"]

\* A submitToNetwork that leaves a rejected record READY, to be tried again.
SubmittedEntityStillReady(rec, answer) ==
    IF answer = "rejected"
    THEN rec
    ELSE [rec EXCEPT !.status = "SUBMITTED",
                     !.submittedAt = "now",
                     !.stellarTxId = answer]

\* The entity submitToNetwork saves after the network answered.
SubmittedEntity(rec, answer) ==
    IF answer = "rejected"
    THEN [rec EXCEPT !.status = "FAILED"]
    ELSE [rec EXCEPT !.status = "SUBMITTED",
                     !.submittedAt = "now",
                     !.stellarTxId = answer]

\* What submitToNetwork returns: the id the saved record holds on success, the
\* reason of the rejection in the catch.
SubmitTransactionResultDto(saved, answer) ==
    IF answer = "rejected"
    THEN [code |-> "OK", success |-> FALSE, message |-> answer,
          pendingTransactionId |-> saved.id]
    ELSE [code |-> "OK", success |-> TRUE, stellarTxId |-> saved.stellarTxId,
          pendingTransactionId |-> saved.id]

\* Set SUBMITTED (or, in the catch, FAILED), await save(pending), return.
SubmitSave(p) ==
    /\ At(p, "sub_sent")
    /\ LET updated == SubmittedEntity(pending[p], net[p])
       IN  /\ store' = [store EXCEPT ![updated.id] = updated]
           /\ pending' = [pending EXCEPT ![p] = updated]
           /\ Finish(p, SubmitTransactionResultDto(updated, net[p]))
    /\ UNCHANGED <<chain, broadcasts, req, acct, net>>

\* What submitToNetwork does when a save of its own throws.  The save of the
\* SUBMITTED record (483) is inside the try: its error lands in the catch,
\* which marks the same object FAILED, with the submittedAt and stellarTxId
\* it was just given, and saves it (502).  The save in the catch is outside
\* any try: its error leaves the handler and the row as it was.
SubmitSaveFailure(p) ==
    /\ At(p, "sub_sent")
    /\ LET attempted == SubmittedEntity(pending[p], net[p])
           failed == [attempted EXCEPT !.status = "FAILED"]
       IN  \/ /\ net[p] # "rejected"
              /\ store' = [store EXCEPT ![failed.id] = failed]
              /\ pending' = [pending EXCEPT ![p] = failed]
              /\ Finish(p, [code |-> "OK", success |-> FALSE,
                            message |-> "save failed",
                            pendingTransactionId |-> failed.id])
           \/ /\ pending' = [pending EXCEPT ![p] = failed]
              /\ Finish(p, Throw("InternalError"))
              /\ UNCHANGED store
    /\ UNCHANGED <<chain, broadcasts, req, acct, net>>

----------------------------------------------------------------------------
(* expireStaleTransactions *)

\* A WHERE clause that takes the current ledger for past.
StaleAtOrBefore(rec, currentLedger) ==
    /\ ~IsAbsent(rec)
    /\ rec.status \in {"PENDING", "READY"}
    /\ rec.expiresAtLedger # NoLedger
    /\ rec.expiresAtLedger[1] <= currentLedger

\* The WHERE clause of the UPDATE.
Stale(rec, currentLedger) ==
    /\ ~IsAbsent(rec)
    /\ rec.status \in {"PENDING", "READY"}
    /\ rec.expiresAtLedger # NoLedger
    /\ rec.expiresAtLedger[1] < currentLedger

\* One UPDATE statement: atomic in the database.
ExpireStale(p, currentLedger) ==
    /\ Begin(p, [op |-> "expire", currentLedger |-> currentLedger])
    /\ store' = [i \in Ids |-> IF Stale(store[i], currentLedger)
                               THEN [store[i] EXCEPT !.status = "EXPIRED"]
                               ELSE store[i]]
    /\ Finish(p, [code |-> "OK",
                  affected |-> Cardinality({i \in Ids : Stale(store[i], currentLedger)})])
    /\ UNCHANGED <<chain, broadcasts, pending, acct, net>>

----------------------------------------------------------------------------
(* The ledger network changes the account's signers and thresholds *)

PolicyChange ==
    /\ ~Responding
    /\ \E policy \in Policies \ {chain} : chain' = policy
    /\ UNCHANGED <<store, broadcasts, pc, req, pending, acct, net, res>>

----------------------------------------------------------------------------
(* Inputs of the requests *)

\* Lists of the keys that pre-signed an envelope, up to MaxEnvSigs of them,
\* repeats allowed.
SignerLists == UNION {[1..n -> Keys] : n \in 0..MaxEnvSigs}

\* The envelope of transaction body pre-signed by the keys of list, in order.
Envelope(body, list) ==
    LET unsigned == [body |-> body, sigs |-> <<>>]
    IN  [body |-> body,
         sigs |-> [i \in DOMAIN list |->
                     DecoratedSignature(list[i], Sign(list[i], TxHash(unsigned)))]]

Envelopes == {Envelope(b, l) : b \in Bodies, l \in SignerLists}

\* Creation requests: any envelope for the account, an undecodable one, and a
\* malformed account id.
CreateInputs ==
    {<<ACCOUNT_ID, xdr>> : xdr \in Envelopes \cup {BadXdr}}
        \cup {<<BadKey, Envelope("T1", <<>>)>>}

\* Creation requests while other requests are in flight: the unsigned
\* envelope, and the one K1 pre-signed.
FewCreateInputs ==
    {<<ACCOUNT_ID, Envelope("T1", l)>> : l \in {<<>>, <<"K1">>}}

\* The key a wrong signature was made with (the tests sign with KP2 and claim
\* KP1).
OtherKey(key) == IF key = "K2" THEN "K1" ELSE "K2"

\* A signature a co-signer posts for record id under a claimed key: made over
\* the hash of the record's transaction with that key, or with another.
SignatureBy(id, key) ==
    Sign(key, IF IsAbsent(store[id]) THEN TxHash(Envelope("T1", <<>>))
              ELSE store[id].transactionHash)

SignInputs ==
    {<<k, k>> : k \in Keys} \cup {<<k, OtherKey(k)>> : k \in Keys}
        \cup {<<BadKey, "K1">>}

FewSignInputs == {<<"K1", "K1">>, <<"K2", "K2">>}

\* The handlers in flight resume after their awaits.
Continue(p) ==
    \/ CreateLoadAccount(p)
    \/ CreateSave(p)
    \/ SigCheck(p)
    \/ SigSave(p)
    \/ SubmitBroadcast(p)
    \/ SubmitSave(p)
    \/ Respond(p)

\* Concurrent requests.  Signatures and submissions go to the stored records;
\* requests for an id that is not in the table are served one at a time in
\* SeqNext.
Next ==
    \/ \E p \in Procs, in \in FewCreateInputs : CreateLookup(p, in[1], in[2])
    \/ \E p \in Procs, id \in UsedIds, in \in FewSignInputs :
          SigLoad(p, id, in[1], SignatureBy(id, in[2]))
    \/ \E p \in Procs, id \in UsedIds : SubmitLoad(p, id)
    \/ \E p \in Procs, currentLedger \in Ledgers : ExpireStale(p, currentLedger)
    \/ \E p \in Procs : Continue(p)
    \/ PolicyChange

Spec == Init /\ [][Next]_vars

\* No other request is in flight.
Alone(p) == \A q \in Procs \ {p} : ~InFlight(q)

\* The same service with its requests served one at a time: a request
\* arrives only when no other is in flight.
SeqNext ==
    \/ \E p \in Procs, in \in CreateInputs :
          Alone(p) /\ CreateLookup(p, in[1], in[2])
    \/ \E p \in Procs, id \in Ids, in \in SignInputs :
          Alone(p) /\ SigLoad(p, id, in[1], SignatureBy(id, in[2]))
    \/ \E p \in Procs, id \in Ids : Alone(p) /\ SubmitLoad(p, id)
    \/ \E p \in Procs, currentLedger \in Ledgers :
          Alone(p) /\ ExpireStale(p, currentLedger)
    \/ \E p \in Procs : Continue(p)
    \/ PolicyChange

SeqSpec == Init /\ [][SeqNext]_vars

\* The service, its requests served one at a time, on a table whose writes
\* may fail.
SaveFailureNext ==
    \/ SeqNext
    \/ \E p \in Procs : SubmitSaveFailure(p)

SaveFailureSpec == Init /\ [][SaveFailureNext]_vars

----------------------------------------------------------------------------
(* The operations on the table as it stands *)

\* The transactions of the rows of a populated table, one per row.
BodyNames == <<"T1", "T2", "T3", "T4">>

Statuses == {"PENDING", "READY", "SUBMITTED", "FAILED", "EXPIRED"}

\* A row as the service leaves it in the given status: the 2-of-2 record
\* unsigned while PENDING (or EXPIRED from PENDING), signed by K1 and K2 from
\* READY on.
TableRow(id, accountId, status, expiry) ==
    LET unsigned == [body |-> BodyNames[id], sigs |-> <<>>]
        created == [StoredFixture(expiry) EXCEPT
                       !.id = id,
                       !.accountId = accountId,
                       !.transactionXdr = unsigned,
                       !.transactionHash = TxHash(unsigned)]
        signed == SignedEntity(
                      SignedEntity(created, "K1", Sign("K1", created.transactionHash), 1),
                      "K2", Sign("K2", created.transactionHash), 1)
        sent == SubmittedEntity(signed, "stellar-tx-hash")
    IN  CASE status = "PENDING" -> created
          [] status = "EXPIRED" -> [created EXCEPT !.status = "EXPIRED"]
          [] status = "READY" -> signed
          [] status = "SUBMITTED" -> sent
          [] status = "FAILED" -> SubmittedEntity(signed, "rejected")

\* The rows a table may hold at position id.
TableRows(id) ==
    {Absent} \cup {TableRow(id, a, s, e) :
                     a \in {"K1", "K2"}, s \in Statuses,
                     e \in {NoLedger} \cup {<<l>> : l \in Ledgers}}

\* The tables of n rows.
RECURSIVE Tables(_)
Tables(n) ==
    IF n = 0
    THEN {<<>>}
    ELSE {Append(t, r) : t \in Tables(n - 1), r \in TableRows(n)}

\* The service started on a table that earlier runs populated.
TableInit ==
    /\ store \in {[i \in Ids |-> t[i]] : t \in Tables(MaxRecords)}
    /\ chain = PolicyTwoOfTwo
    /\ broadcasts = [i \in Ids |-> 0]
    /\ pc = [p \in Procs |-> "idle"]
    /\ req = [p \in Procs |-> NoReq]
    /\ pending = [p \in Procs |-> Absent]
    /\ acct = [p \in Procs |-> NoAcct]
    /\ net = [p \in Procs |-> "none"]
    /\ res = [p \in Procs |-> NoRes]

\* The view of a record the API returns.
toStatusDto(entity) ==
    [id |-> entity.id,
     accountId |-> entity.accountId,
     status |-> entity.status,
     requiredThreshold |-> entity.requiredThreshold,
     collectedWeight |-> entity.collectedWeight,
     remainingWeight |-> IF entity.requiredThreshold > entity.collectedWeight
                         THEN entity.requiredThreshold - entity.collectedWeight
                         ELSE 0,
     isReady |-> entity.collectedWeight >= entity.requiredThreshold,
     pendingSigners |-> entity.pendingSigners,
     signatures |-> [k \in DOMAIN entity.signatures |->
                        [publicKey |-> entity.signatures[k].publicKey,
                         weight |-> entity.signatures[k].weight]],
     expiresAtLedger |-> entity.expiresAtLedger,
     submittedAt |-> entity.submittedAt,
     stellarTxId |-> entity.stellarTxId]

\* A default filter that lists expired records too.
DefaultStatusesWithExpired == {"PENDING", "READY", "EXPIRED"}

\* The statuses getPendingTransactions falls back on.
DefaultStatuses == {"PENDING", "READY"}

\* The statuses query of a list request: none, or one set of statuses.
NoQuery == <<>>
StatusQueries ==
    {NoQuery, <<{"PENDING"}>>, <<{"SUBMITTED", "FAILED", "EXPIRED"}>>}

\* find({ where: { accountId, status: In(statuses) }, order: { createdAt:
\* 'DESC' } }) over the rows 1..n: the latest created (highest id) first.
RECURSIVE Find(_, _, _)
Find(n, accountId, statuses) ==
    IF n = 0
    THEN <<>>
    ELSE IF /\ ~IsAbsent(store[n])
            /\ store[n].accountId = accountId
            /\ store[n].status \in statuses
         THEN <<store[n]>> \o Find(n - 1, accountId, statuses)
         ELSE Find(n - 1, accountId, statuses)

\* GET accounts/:accountId/pending: the controller hands the parsed query, or
\* undefined, to getPendingTransactions, which validates the key, reads the
\* table and maps the rows to their views.
ListPending(p, accountId, query) ==
    /\ Begin(p, [op |-> "list", accountId |-> accountId, query |-> query])
    /\ IF ~validatePublicKey(accountId)
       THEN Finish(p, Throw("BadRequest"))
       ELSE LET statuses == IF query = NoQuery THEN DefaultStatuses ELSE query[1]
                records == Find(MaxRecords, accountId, statuses)
            IN  Finish(p, [code |-> "OK",
                           list |-> [k \in DOMAIN records |-> toStatusDto(records[k])]])
    /\ UNCHANGED <<store, chain, broadcasts, pending, acct, net>>

TableNext ==
    \/ \E p \in Procs, currentLedger \in Ledgers :
          Alone(p) /\ ExpireStale(p, currentLedger)
    \/ \E p \in Procs, accountId \in {ACCOUNT_ID, BadKey}, query \in StatusQueries :
          Alone(p) /\ ListPending(p, accountId, query)
    \/ \E p \in Procs : Respond(p)

TableSpec == TableInit /\ [][TableNext]_vars

\* Creation requests against a populated table: for either account, the
\* transaction of row 1 unsigned and pre-signed by K1.
TableCreateInputs ==
    {<<a, Envelope("T1", l)>> : a \in {"K1", "K2"}, l \in {<<>>, <<"K1">>}}

\* createPendingTransaction, one call at a time, on the table as it stands.
DuplicateNext ==
    \/ \E p \in Procs, in \in TableCreateInputs :
          Alone(p) /\ CreateLookup(p, in[1], in[2])
    \/ \E p \in Procs : CreateLoadAccount(p)
    \/ \E p \in Procs : CreateSave(p)
    \/ \E p \in Procs : Respond(p)

DuplicateSpec == TableInit /\ [][DuplicateNext]_vars

----------------------------------------------------------------------------
(* Account inspection *)

\* What server.loadAccount may answer: the account, a 404 (the network has no
\* such account), or no answer at all (timeout, transport error).
LoadAccountAnswers == {"account", "not-found", "unavailable"}

\* GET accounts/:accountId/status: validatePublicKey, await loadAccount in a
\* try whose catch throws NotFoundException whatever the error, build the DTO.
GetStatus(p, accountId) ==
    /\ Begin(p, [op |-> "status", accountId |-> accountId])
    /\ IF ~validatePublicKey(accountId)
       THEN /\ Finish(p, Throw("BadRequest"))
            /\ UNCHANGED <<acct, net>>
       ELSE \E answer \in LoadAccountAnswers :
               /\ net' = [net EXCEPT ![p] = answer]
               /\ IF answer = "account"
                  THEN /\ acct' = [acct EXCEPT ![p] = getAccountMultisigStatus(chain)]
                       /\ Finish(p, [code |-> "OK", accountId |-> accountId,
                                     status |-> getAccountMultisigStatus(chain)])
                  ELSE /\ Finish(p, Throw("NotFound"))
                       /\ UNCHANGED acct
    /\ UNCHANGED <<store, chain, broadcasts, pending>>

\* Accounts of one to three signers, with any medium and high threshold.
SignerSets ==
    {<<Signer("K1", 1)>>,
     <<Signer("K1", 1), Signer("K2", 1)>>,
     <<Signer("K1", 2), Signer("K2", 1), Signer("K3", 1)>>}

Accounts ==
    {[low |-> 0, med |-> m, high |-> h, signers |-> s] :
        m \in 0..MaxThreshold, h \in 0..MaxThreshold, s \in SignerSets}

AccountInit ==
    /\ store = [i \in Ids |-> Absent]
    /\ chain \in Accounts
    /\ broadcasts = [i \in Ids |-> 0]
    /\ pc = [p \in Procs |-> "idle"]
    /\ req = [p \in Procs |-> NoReq]
    /\ pending = [p \in Procs |-> Absent]
    /\ acct = [p \in Procs |-> NoAcct]
    /\ net = [p \in Procs |-> "none"]
    /\ res = [p \in Procs |-> NoRes]

AccountNext ==
    \/ \E p \in Procs, accountId \in {ACCOUNT_ID, BadKey} :
          Alone(p) /\ GetStatus(p, accountId)
    \/ \E p \in Procs : Respond(p)

AccountSpec == AccountInit /\ [][AccountNext]_vars

----------------------------------------------------------------------------
(* Properties *)

TerminalStatuses == {"SUBMITTED", "FAILED", "EXPIRED"}

Rows == {i \in Ids : ~IsAbsent(store[i])}

\* Worker p takes a step of its handler.
Steps(p) == pc'[p] # pc[p]

\* Worker p's submitSignature is accepted in this step: the save went through.
Accepts(p) ==
    /\ pc[p] = "sig_acct"
    /\ pc'[p] = "done"
    /\ res'[p].code = "OK"

\* The entry an accepted submitSignature of p has just added.
Added(p) == pending'[p].signatures[Len(pending'[p].signatures)]

\* C1: the ledger's submitTransaction is called at most once for a record,
\* whatever the interleaving of the submitToNetwork calls on it.
C1_AtMostOneBroadcast == \A id \in Ids : broadcasts[id] <= 1

\* C2: submitToNetwork on a record it loaded as SUBMITTED or FAILED throws
\* BadRequest, calls no submitTransaction and writes nothing.
C2_SubmitAfterTerminalRejected ==
    [][\A p \in Procs :
          (/\ pc[p] = "sub_loaded"
           /\ pending[p].status \in {"SUBMITTED", "FAILED"}
           /\ Steps(p))
          => /\ pc'[p] = "done"
             /\ res'[p].code = "BadRequest"
             /\ broadcasts' = broadcasts
             /\ store' = store]_vars

C2_Witness ==
    \E p \in Procs :
        /\ pc[p] = "done"
        /\ req[p].op = "submit"
        /\ pending[p].status \in {"SUBMITTED", "FAILED"}
        /\ res[p].code = "BadRequest"
        /\ broadcasts[req[p].id] = 1

C4_ReadyMeetsThreshold ==
    /\ \A id \in Rows :
          store[id].status \in {"READY", "SUBMITTED"}
          => store[id].collectedWeight >= store[id].requiredThreshold
    /\ \A p \in Procs :
          pc[p] = "sub_sent"
          => pending[p].collectedWeight >= pending[p].requiredThreshold

C4_Witness ==
    \E id \in Rows :
        /\ store[id].status = "SUBMITTED"
        /\ store[id].requiredThreshold = 2
        /\ Len(store[id].signatures) = 2
        /\ broadcasts[id] = 1

\* C5: an accepted submitSignature loses no other signer's update: every
\* signer stored before its save is stored after it, and the stored weight
\* grows by the weight of the signer it adds.
C5_NoLostUpdate ==
    [][\A p \in Procs :
          Accepts(p)
          => LET id == req[p].id
             IN  /\ SignerKeys(store[id].signatures)
                        \subseteq SignerKeys(store'[id].signatures)
                 /\ ~HasSigned(store[id].signatures, req[p].signerPublicKey)
                    => store'[id].collectedWeight
                           = store[id].collectedWeight + Added(p).weight]_vars

\* C6: of two submitSignature calls for one signer on one record only one is
\* accepted: none is accepted once the stored record holds an entry of the
\* signer.
C6_OneAcceptancePerSigner ==
    [][\A p \in Procs :
          Accepts(p)
          => ~HasSigned(store[req[p].id].signatures, req[p].signerPublicKey)]_vars

\* C7: no write puts PENDING or READY back over a stored SUBMITTED, FAILED or
\* EXPIRED, whatever the interleaving.
C7_NoStatusWrittenOverTerminal ==
    [][\A id \in Rows :
          store[id].status \in TerminalStatuses
          => store'[id].status \notin {"PENDING", "READY"}]_vars

\* C8: the signatures of a stored record hold at most one entry per public
\* key.
C8_OneEntryPerKey ==
    \A id \in Rows :
        Cardinality(SignerKeys(store[id].signatures)) = Len(store[id].signatures)

\* C9: the collectedWeight of a stored record is the sum of the weights of
\* its signatures.
C9_WeightIsSumOfSignatures ==
    \A id \in Rows :
        store[id].collectedWeight = SumWeights(store[id].signatures)

C9_Witness ==
    \E id \in Rows :
        /\ Len(store[id].signatures) = 2
        /\ store[id].collectedWeight = 3

\* C10 as stated: a submitSignature for a signer that has an entry in the
\* record always throws Conflict and writes nothing.
C10_ResubmitAlwaysConflict ==
    [][\A p \in Procs :
          (/\ pc[p] = "sig_loaded"
           /\ ~IsAbsent(pending[p])
           /\ HasSigned(pending[p].signatures, req[p].signerPublicKey)
           /\ Steps(p))
          => /\ pc'[p] = "done"
             /\ res'[p].code = "Conflict"
             /\ store' = store]_vars

\* C10 amended: a submitSignature for a signer that has an entry in the record
\* throws Conflict when the record is PENDING or READY and BadRequest when
\* it is SUBMITTED, FAILED or EXPIRED; either way it writes nothing.
C10_ResubmitRejected ==
    [][\A p \in Procs :
          (/\ pc[p] = "sig_loaded"
           /\ ~IsAbsent(pending[p])
           /\ HasSigned(pending[p].signatures, req[p].signerPublicKey)
           /\ Steps(p))
          => /\ pc'[p] = "done"
             /\ res'[p].code = IF pending[p].status \in {"PENDING", "READY"}
                               THEN "Conflict" ELSE "BadRequest"
             /\ store' = store]_vars

C10_Witness ==
    \E p \in Procs :
        /\ pc[p] = "done"
        /\ req[p].op = "sign"
        /\ pending[p].status \in {"PENDING", "READY"}
        /\ HasSigned(pending[p].signatures, req[p].signerPublicKey)
        /\ store[req[p].id] = pending[p]
        /\ res[p].code = "Conflict"

\* The signature p posted was not made by the claimed key over the hash of the
\* record p loaded.
WrongSignature(p) ==
    /\ ~IsAbsent(pending[p])
    /\ \/ req[p].signature.by # req[p].signerPublicKey
       \/ req[p].signature.over # pending[p].transactionHash

\* C11 as stated: a submitSignature whose signature does not verify under
\* the claimed key always throws BadRequest and writes nothing.
C11_WrongSignatureAlwaysBadRequest ==
    [][\A p \in Procs :
          (pc[p] = "sig_loaded" /\ WrongSignature(p) /\ Steps(p))
          => /\ pc'[p] = "done"
             /\ res'[p].code = "BadRequest"
             /\ store' = store]_vars

\* C11 amended: a submitSignature whose signature does not verify under the
\* claimed key is rejected at once and writes nothing: with Conflict when the
\* record is PENDING or READY and already holds an entry of the claimed key,
\* with BadRequest otherwise.
C11_WrongSignatureRejected ==
    [][\A p \in Procs :
          (pc[p] = "sig_loaded" /\ WrongSignature(p) /\ Steps(p))
          => /\ pc'[p] = "done"
             /\ res'[p].code =
                    IF /\ pending[p].status \in {"PENDING", "READY"}
                       /\ HasSigned(pending[p].signatures, req[p].signerPublicKey)
                    THEN "Conflict" ELSE "BadRequest"
             /\ store' = store]_vars

C11_Witness ==
    \E p \in Procs :
        /\ pc[p] = "done"
        /\ req[p].op = "sign"
        /\ WrongSignature(p)
        /\ pending[p].status = "PENDING"
        /\ ~HasSigned(pending[p].signatures, req[p].signerPublicKey)
        /\ FindSigner(chain.signers, req[p].signerPublicKey) # {}
        /\ res[p].code = "BadRequest"
        /\ store[req[p].id] = pending[p]

\* The signer of p's request is not among the signers the account had when p
\* loaded it.
NotOnAccount(p) ==
    \A i \in DOMAIN acct[p].signers :
        acct[p].signers[i].publicKey # req[p].signerPublicKey

\* C12: a submitSignature whose signer is not in the signer set the account
\* has when the call loads it throws BadRequest and writes nothing, also when
\* the signer is in the record's pendingSigners.
C12_AuthorizationRechecked ==
    [][\A p \in Procs :
          (pc[p] = "sig_acct" /\ NotOnAccount(p) /\ Steps(p))
          => /\ pc'[p] = "done"
             /\ res'[p].code = "BadRequest"
             /\ store' = store]_vars

C12_Witness ==
    \E p \in Procs :
        /\ pc[p] = "done"
        /\ req[p].op = "sign"
        /\ ~IsAbsent(pending[p])
        /\ ~WrongSignature(p)
        /\ NotOnAccount(p)
        /\ acct[p].signers # <<>>
        /\ \E i \in DOMAIN pending[p].pendingSigners :
              pending[p].pendingSigners[i] = req[p].signerPublicKey
        /\ res[p].code = "BadRequest"
        /\ store[req[p].id] = pending[p]

\* The record p loaded passes every check submitSignature makes before it
\* loads the account.
PassesChecks(p) ==
    /\ ~IsAbsent(pending[p])
    /\ pending[p].status \in {"PENDING", "READY"}
    /\ ~HasSigned(pending[p].signatures, req[p].signerPublicKey)
    /\ ~WrongSignature(p)

\* C13: a submitSignature whose loadAccount fails throws (NotFound) and writes
\* nothing; it goes on to the signer lookup only with the account status the
\* network returned, and is accepted only for a signer of that status.
C13_NoAcceptanceWithoutPolicy ==
    [][\A p \in Procs :
          /\ (pc[p] = "sig_loaded" /\ PassesChecks(p) /\ Steps(p))
             => \/ /\ pc'[p] = "done"
                   /\ res'[p].code = "NotFound"
                   /\ store' = store
                \/ /\ pc'[p] = "sig_acct"
                   /\ acct'[p] = getAccountMultisigStatus(chain)
                   /\ store' = store
          /\ Accepts(p) => acct[p] # NoAcct /\ ~NotOnAccount(p)]_vars

C13_Witness ==
    \E p \in Procs :
        /\ pc[p] = "done"
        /\ req[p].op = "sign"
        /\ PassesChecks(p)
        /\ acct[p] = NoAcct
        /\ res[p].code = "NotFound"
        /\ store[req[p].id] = pending[p]

\* C14: the record an accepted submitSignature saves is READY when its new
\* collectedWeight >= requiredThreshold and PENDING when it is not.
C14_ReadyIffThresholdMet ==
    [][\A p \in Procs :
          Accepts(p)
          => LET saved == store'[req[p].id]
             IN  /\ saved = pending'[p]
                 /\ saved.collectedWeight
                        = pending[p].collectedWeight + Added(p).weight
                 /\ saved.status =
                        IF saved.collectedWeight >= saved.requiredThreshold
                        THEN "READY" ELSE "PENDING"]_vars

C14_Witness ==
    \E p \in Procs :
        /\ pc[p] = "done"
        /\ req[p].op = "sign"
        /\ res[p].code = "OK"
        /\ pending[p].status = "READY"
        /\ pending[p].requiredThreshold = 2
        /\ pending[p].collectedWeight = 2
        /\ Len(pending[p].signatures) = 2
        /\ store[req[p].id] = pending[p]

\* C15: the stored collectedWeight of a record never decreases, and an
\* accepted submitSignature of a signer the record holds no entry of raises
\* it by exactly the weight the account gave that signer during the call.
C15_WeightNeverRegresses ==
    [][/\ \A id \in Rows :
             store'[id].collectedWeight >= store[id].collectedWeight
       /\ \A p \in Procs :
             (/\ Accepts(p)
              /\ ~HasSigned(store[req[p].id].signatures, req[p].signerPublicKey))
             => /\ Added(p).weight > 0
                /\ \E i \in DOMAIN acct[p].signers :
                      acct[p].signers[i] = Signer(req[p].signerPublicKey, Added(p).weight)
                /\ store'[req[p].id].collectedWeight
                       = store[req[p].id].collectedWeight + Added(p).weight]_vars

\* The rows that hold the transaction of p's createPendingTransaction.
SameTransaction(p) ==
    {id \in Rows : store[id].transactionHash = TxHash(req[p].xdr)}

\* C16: with the calls made one after the other, a createPendingTransaction
\* for a transaction a stored record holds throws Conflict, the Conflict names
\* the id of that record, and nothing is stored.
C16_DuplicateCreateConflicts ==
    [][\A p \in Procs :
          (pc[p] = "cr_found" /\ SameTransaction(p) # {} /\ Steps(p))
          => /\ pc'[p] = "done"
             /\ res'[p].code = "Conflict"
             /\ res'[p].existingId \in SameTransaction(p)
             /\ store' = store]_vars

C16_Witness ==
    \E p \in Procs :
        /\ pc[p] = "done"
        /\ req[p].op = "create"
        /\ res[p].code = "Conflict"
        /\ res[p].existingId \in Rows
        /\ store[res[p].existingId].transactionXdr = req[p].xdr
        /\ req[p].xdr.sigs # <<>>

\* C17: no two stored records have the same transactionHash, also when two
\* createPendingTransaction calls for the same transaction are in flight at
\* once.
C17_UniqueTransactionHash ==
    \A i \in Rows : \A j \in Rows :
        store[i].transactionHash = store[j].transactionHash => i = j

\* Two creations of one transaction both got past findOne; one saved, the
\* other's save was refused.
C17_Witness ==
    \E p \in Procs :
        /\ pc[p] = "done"
        /\ req[p].op = "create"
        /\ acct[p] # NoAcct
        /\ res[p].code = "InternalError"
        /\ SameTransaction(p) # {}
        /\ Cardinality(Rows) = 1

\* C18: submitToNetwork on a record it loaded with a status other than READY
\* throws BadRequest, the exception gives the status and the collected and
\* required weight of the record, no submitTransaction is called and nothing
\* is written.
C18_NotReadyRejected ==
    [][\A p \in Procs :
          (/\ pc[p] = "sub_loaded"
           /\ ~IsAbsent(pending[p])
           /\ pending[p].status # "READY"
           /\ Steps(p))
          => /\ pc'[p] = "done"
             /\ res'[p].code = "BadRequest"
             /\ res'[p].status = pending[p].status
             /\ res'[p].collectedWeight = pending[p].collectedWeight
             /\ res'[p].requiredThreshold = pending[p].requiredThreshold
             /\ broadcasts' = broadcasts
             /\ store' = store]_vars

C18_Witness ==
    \E p \in Procs :
        /\ pc[p] = "done"
        /\ req[p].op = "submit"
        /\ res[p].code = "BadRequest"
        /\ res[p].status = "PENDING"
        /\ res[p].collectedWeight = 1
        /\ res[p].requiredThreshold = 2
        /\ store[req[p].id] = pending[p]
        /\ broadcasts[req[p].id] = 0

\* The columns submitToNetwork does not assign are those of the record it
\* loaded.
KeepsTheRest(saved, loaded) ==
    saved = [loaded EXCEPT !.status = saved.status,
                           !.submittedAt = saved.submittedAt,
                           !.stellarTxId = saved.stellarTxId]

\* C19: when submitTransaction succeeds, submitToNetwork saves the READY
\* record it loaded as SUBMITTED, with submittedAt set and stellarTxId the id
\* the network returned, and returns success with that id.
C19_SuccessfulSubmit ==
    [][\A p \in Procs :
          (pc[p] = "sub_sent" /\ net[p] # "rejected" /\ Steps(p))
          => LET saved == store'[req[p].id]
             IN  /\ pending[p].status = "READY"
                 /\ saved.status = "SUBMITTED"
                 /\ saved.submittedAt # "null"
                 /\ saved.stellarTxId = net[p]
                 /\ KeepsTheRest(saved, pending[p])
                 /\ pc'[p] = "done"
                 /\ res'[p].code = "OK"
                 /\ res'[p].success
                 /\ res'[p].stellarTxId = net[p]]_vars

C19_Witness ==
    \E p \in Procs :
        /\ pc[p] = "done"
        /\ req[p].op = "submit"
        /\ res[p].code = "OK"
        /\ res[p].success
        /\ res[p].stellarTxId = "stellar-tx-hash"
        /\ store[req[p].id].status = "SUBMITTED"
        /\ store[req[p].id].stellarTxId = "stellar-tx-hash"
        /\ broadcasts[req[p].id] = 1

Creates(p) ==
    /\ pc[p] = "cr_acct"
    /\ pc'[p] = "done"
    /\ res'[p].code = "OK"

\* The decorated signatures of env made by key over the transaction of env.
SignedBy(env, key) ==
    {i \in DOMAIN env.sigs :
        /\ env.sigs[i].signature.by = key
        /\ env.sigs[i].signature.over = <<NETWORK, env.body>>}

\* The weight of the signatures of env that verify for the signers given.
RECURSIVE VerifiedWeight(_, _)
VerifiedWeight(env, signers) ==
    IF signers = <<>> THEN 0
    ELSE Head(signers).weight * Cardinality(SignedBy(env, Head(signers).publicKey))
         + VerifiedWeight(env, Tail(signers))

\* The keys of the signers given that no signature of env verifies for.
RECURSIVE Unsigned(_, _)
Unsigned(env, signers) ==
    IF signers = <<>> THEN <<>>
    ELSE (IF SignedBy(env, Head(signers).publicKey) = {}
          THEN <<Head(signers).publicKey>> ELSE <<>>)
         \o Unsigned(env, Tail(signers))

\* C21: the record createPendingTransaction stores has collectedWeight the
\* summed weight of the envelope's signatures that verify for the account's
\* signers, pendingSigners the account's signers without those that signed,
\* and status READY when that weight >= requiredThreshold, PENDING otherwise.
C21_InitialState ==
    [][\A p \in Procs :
          Creates(p)
          => LET saved == pending'[p]
             IN  /\ store'[saved.id] = saved
                 /\ saved.collectedWeight = VerifiedWeight(req[p].xdr, acct[p].signers)
                 /\ saved.pendingSigners = Unsigned(req[p].xdr, acct[p].signers)
                 /\ saved.status =
                        IF saved.collectedWeight >= saved.requiredThreshold
                        THEN "READY" ELSE "PENDING"]_vars

\* The envelope pre-signed by both signers of the 2-of-2 account.
C21_Witness ==
    \E p \in Procs :
        /\ pc[p] = "done"
        /\ req[p].op = "create"
        /\ res[p].code = "OK"
        /\ SignerKeys(pending[p].signatures) = {"K1", "K2"}
        /\ pending[p].status = "READY"
        /\ pending[p].requiredThreshold = 2
        /\ pending[p].collectedWeight = 2
        /\ pending[p].pendingSigners = <<>>
        /\ Len(req[p].xdr.sigs) = 2
        /\ store[pending[p].id] = pending[p]

\* C22: every stored record has requiredThreshold >= 1 (the medium threshold
\* of the account, or 1 when that is absent or zero), and a record that holds
\* no signature is not READY.
C22_ThresholdAtLeastOne ==
    \A id \in Rows :
        /\ store[id].requiredThreshold >= 1
        /\ store[id].signatures = <<>> => store[id].status # "READY"

\* C23: no step changes the id, accountId, transactionHash or
\* requiredThreshold of a stored record, whatever the account's thresholds
\* have become; an accepted submitSignature decides READY against the
\* requiredThreshold the record was created with.
C23_CreationFieldsFixed ==
    [][/\ \A id \in Rows :
             /\ store'[id].id = store[id].id
             /\ store'[id].accountId = store[id].accountId
             /\ store'[id].transactionHash = store[id].transactionHash
             /\ store'[id].requiredThreshold = store[id].requiredThreshold
       /\ \A p \in Procs :
             Accepts(p)
             => (store'[req[p].id].status = "READY"
                 <=> store'[req[p].id].collectedWeight
                         >= store[req[p].id].requiredThreshold)]_vars

\* A signature accepted on the record of the 2-of-2 account after the
\* account's medium threshold changed.
C23_Witness ==
    \E p \in Procs :
        /\ pc[p] = "done"
        /\ req[p].op = "sign"
        /\ res[p].code = "OK"
        /\ acct[p].thresholdMedium = 0
        /\ store[req[p].id].requiredThreshold = 2
        /\ store[req[p].id] = pending[p]

StatusTransitions ==
    {<<"PENDING", "READY">>, <<"READY", "SUBMITTED">>, <<"READY", "FAILED">>,
     <<"PENDING", "EXPIRED">>, <<"READY", "EXPIRED">>}

\* C24: every change of the status of a stored record is PENDING -> READY,
\* READY -> SUBMITTED, READY -> FAILED, PENDING -> EXPIRED or READY -> EXPIRED.
C24_OnlyListedTransitions ==
    [][\A id \in Rows :
          store'[id].status # store[id].status
          => <<store[id].status, store'[id].status>> \in StatusTransitions]_vars

\* Worker p's expireStaleTransactions runs in this step.
Sweeps(p) == pc[p] = "idle" /\ pc'[p] = "done" /\ req'[p].op = "expire"

\* The rows a sweep at ledger is to expire.
DueAt(ledger) ==
    {id \in Rows :
        /\ store[id].status \in {"PENDING", "READY"}
        /\ store[id].expiresAtLedger \in {<<l>> : l \in 0..(ledger - 1)}}

\* C25: expireStaleTransactions(currentLedger) sets to EXPIRED the rows that
\* are PENDING or READY with expiresAtLedger set and below currentLedger,
\* changes nothing else of them, leaves every other row as it is and returns
\* the number of rows it expired.
C25_ExpiresExactlyTheStale ==
    [][\A p \in Procs :
          Sweeps(p)
          => LET due == DueAt(req'[p].currentLedger)
             IN  /\ \A id \in due :
                       store'[id] = [store[id] EXCEPT !.status = "EXPIRED"]
                 /\ \A id \in Ids \ due : store'[id] = store[id]
                 /\ res'[p].code = "OK"
                 /\ res'[p].affected = Cardinality(due)]_vars

\* A sweep that expired one row and left alone one that expires at the
\* current ledger.
C25_Witness ==
    \E p \in Procs :
        /\ pc[p] = "done"
        /\ req[p].op = "expire"
        /\ res[p].affected = 1
        /\ \E id \in Rows :
              /\ store[id].status = "PENDING"
              /\ store[id].expiresAtLedger = <<req[p].currentLedger>>
        /\ \E id \in Rows :
              /\ store[id].status = "EXPIRED"
              /\ store[id].expiresAtLedger # NoLedger
              /\ store[id].expiresAtLedger[1] < req[p].currentLedger

\* Worker p's getAccountMultisigStatus has returned or thrown.
Inspected(p) == pc[p] = "done" /\ req[p].op = "status"

\* C26: getAccountMultisigStatus on a well-formed account id throws NotFound
\* only when the network answered that the account does not exist; when the
\* network could not be reached it fails with Unavailable.
C26_UnavailableIsNotNotFound ==
    \A p \in Procs :
        (Inspected(p) /\ net[p] # "none")
        => /\ res[p].code = "NotFound" <=> net[p] = "not-found"
           /\ res[p].code = "Unavailable" <=> net[p] = "unavailable"

\* C27: getAccountMultisigStatus for a malformed account id throws BadRequest
\* without having called loadAccount.
C27_ValidatesBeforeNetwork ==
    \A p \in Procs :
        (Inspected(p) /\ req[p].accountId \notin Keys)
        => /\ res[p].code = "BadRequest"
           /\ net[p] = "none"
           /\ acct[p] = NoAcct

C27_Witness ==
    \E p \in Procs :
        /\ Inspected(p)
        /\ req[p].accountId = BadKey
        /\ res[p].code = "BadRequest"
        /\ net[p] = "none"

\* The weights of the signers at the given positions, added up.
RECURSIVE WeightAt(_, _)
WeightAt(signers, n) ==
    IF n = 0 THEN 0 ELSE signers[n].weight + WeightAt(signers, n - 1)

\* C30: the inspection of an account reports isMultisig exactly when the
\* account has more than one signer or a medium or high threshold above 1,
\* and reports as totalWeight the sum of the weights of its signers.
C30_IsMultisigAndTotalWeight ==
    \A p \in Procs :
        (Inspected(p) /\ res[p].code = "OK")
        => /\ res[p].status.isMultisig
                <=> \/ Len(chain.signers) > 1
                    \/ chain.med > 1
                    \/ chain.high > 1
           /\ res[p].status.totalWeight = WeightAt(chain.signers, Len(chain.signers))

C30_Witness ==
    \E p \in Procs :
        /\ Inspected(p)
        /\ res[p].code = "OK"
        /\ Len(chain.signers) = 1
        /\ chain.med <= 1
        /\ chain.high > 1
        /\ res[p].status.isMultisig
        /\ res[p].status.totalWeight = 1

Lists(p) == pc[p] = "done" /\ req[p].op = "list" /\ res[p].code = "OK"

\* The statuses a list request asks for: those of its query, PENDING and
\* READY when it has none.
Requested(p) ==
    IF req[p].query = <<>> THEN {"PENDING", "READY"} ELSE req[p].query[1]

\* The rows a list request is about.
Matching(p) ==
    {i \in Ids : /\ store[i].status \in Requested(p)
                 /\ store[i].accountId = req[p].accountId}

\* C29: a listing returns exactly the stored records of the account whose
\* status is in the requested set, each once and with the status it has in
\* the table; without a requested set it returns the PENDING and READY ones.
C29_ListsExactlyTheRequested ==
    \A p \in Procs :
        Lists(p)
        => /\ {res[p].list[k].id : k \in DOMAIN res[p].list} = Matching(p)
           /\ Len(res[p].list) = Cardinality(Matching(p))
           /\ \A k \in DOMAIN res[p].list :
                 /\ res[p].list[k].status = store[res[p].list[k].id].status
                 /\ res[p].list[k].accountId = req[p].accountId

C29_Witness ==
    \E p \in Procs :
        /\ Lists(p)
        /\ req[p].query = <<>>
        /\ \A i \in Ids : store[i].status # "ABSENT" /\ store[i].accountId = req[p].accountId
        /\ store[1].status = "EXPIRED"
        /\ store[2].status = "READY"
        /\ Len(res[p].list) = 1
        /\ res[p].list[1].id = 2

\* The account of the scenario as a handler loaded it: K1 and K2 with weight
\* 1 each, medium threshold 2.
ScenarioAccount(p) ==
    /\ acct[p].thresholdMedium = 2
    /\ acct[p].signers = <<[publicKey |-> "K1", weight |-> 1],
                           [publicKey |-> "K2", weight |-> 1]>>

\* The record of the scenario as a handler loaded it, after the signatures of
\* the keys given.
ScenarioRecord(p, keys) ==
    /\ pending[p].status = "PENDING"
    /\ pending[p].requiredThreshold = 2
    /\ pending[p].collectedWeight = Len(keys)
    /\ Len(pending[p].signatures) = Len(keys)
    /\ \A k \in DOMAIN keys : pending[p].signatures[k].publicKey = keys[k]

\* C28: on the account {K1:1, K2:1} with medium threshold 2 and with the
\* calls made one after the other, creating from an unsigned envelope stores
\* a PENDING record of weight 0; the signature of K1 on it is accepted and
\* gives weight 1, still PENDING; the signature of K2 then gives weight 2 and
\* READY; submitToNetwork on the READY record broadcasts it, and when the
\* network accepts it the record is SUBMITTED and the result has success true.
C28_HappyPath ==
    [][\A p \in Procs :
          /\ (/\ pc[p] = "cr_acct"
              /\ ScenarioAccount(p)
              /\ req[p].xdr.sigs = <<>>
              /\ Steps(p))
             => /\ pc'[p] = "done"
                /\ res'[p].code = "OK"
                /\ store'[pending'[p].id] = pending'[p]
                /\ pending'[p].status = "PENDING"
                /\ pending'[p].collectedWeight = 0
                /\ pending'[p].requiredThreshold = 2
          /\ (/\ pc[p] = "sig_acct"
              /\ ScenarioAccount(p)
              /\ ScenarioRecord(p, <<>>)
              /\ req[p].signerPublicKey = "K1"
              /\ Steps(p))
             => /\ pc'[p] = "done"
                /\ res'[p].code = "OK"
                /\ store'[req[p].id].collectedWeight = 1
                /\ store'[req[p].id].status = "PENDING"
          /\ (/\ pc[p] = "sig_acct"
              /\ ScenarioAccount(p)
              /\ ScenarioRecord(p, <<"K1">>)
              /\ req[p].signerPublicKey = "K2"
              /\ Steps(p))
             => /\ pc'[p] = "done"
                /\ res'[p].code = "OK"
                /\ store'[req[p].id].collectedWeight = 2
                /\ store'[req[p].id].status = "READY"
          /\ (/\ pc[p] = "sub_loaded"
              /\ pending[p].status = "READY"
              /\ Steps(p))
             => pc'[p] = "sub_sent"
          /\ (/\ pc[p] = "sub_sent"
              /\ pending[p].status = "READY"
              /\ net[p] # "rejected"
              /\ Steps(p))
             => /\ pc'[p] = "done"
                /\ res'[p].code = "OK"
                /\ res'[p].success
                /\ store'[req[p].id].status = "SUBMITTED"]_vars

\* The end of the scenario: the record created unsigned, signed by K1 and
\* then K2, sent and accepted.
C28_Witness ==
    \E p \in Procs :
        /\ pc[p] = "done"
        /\ req[p].op = "submit"
        /\ res[p].code = "OK"
        /\ res[p].success
        /\ store[req[p].id].status = "SUBMITTED"
        /\ store[req[p].id].expiresAtLedger = <<>>
        /\ store[req[p].id].requiredThreshold = 2
        /\ store[req[p].id].collectedWeight = 2
        /\ Len(store[req[p].id].signatures) = 2
        /\ store[req[p].id].signatures[1].publicKey = "K1"
        /\ store[req[p].id].signatures[1].weight = 1
        /\ store[req[p].id].signatures[2].publicKey = "K2"
        /\ store[req[p].id].signatures[2].weight = 1
        /\ Len(store[req[p].id].transactionXdr.sigs) = 2
        /\ chain.med = 2

\* C31: a stored record that has a stellarTxId or a submittedAt is SUBMITTED.
C31_TxIdOnlyWhenSubmitted ==
    \A id \in Rows :
        (store[id].stellarTxId # "null" \/ store[id].submittedAt # "null")
        => store[id].status = "SUBMITTED"

\* C38: a record whose broadcast the network accepted is saved as SUBMITTED
\* by the handler that sent it, a record becomes FAILED only in the step of a
\* handler whose broadcast was rejected, and a SUBMITTED record never becomes
\* FAILED.
C38_FailedOnlyWhenRejected ==
    [][\A p \in Procs :
          /\ (pc[p] = "sub_sent" /\ net[p] # "rejected" /\ Steps(p))
             => store'[req[p].id].status = "SUBMITTED"
          /\ (/\ pc[p] = "sub_sent"
              /\ Steps(p)
              /\ store[req[p].id].status # "FAILED"
              /\ store'[req[p].id].status = "FAILED")
             => net[p] = "rejected"
          /\ \A id \in Rows :
                store[id].status = "SUBMITTED" => store'[id].status # "FAILED"]_vars

\* The request worker p takes in this step is a createPendingTransaction.
Arrives(p) == pc[p] = "idle" /\ Steps(p) /\ req'[p].op = "create"

\* C32: createPendingTransaction validates the account id and decodes the
\* envelope before it looks the hash up: a malformed id or an undecodable
\* envelope ends in BadRequest with no lookup, no loadAccount and no write,
\* also when a record with the hash is stored.  The account is loaded only
\* after a lookup that found nothing, and a Conflict comes from the lookup,
\* with no account loaded and nothing written.
C32_CreateCheckOrder ==
    [][\A p \in Procs :
          /\ (Arrives(p) /\ (req'[p].accountId \notin Keys \/ req'[p].xdr.body \notin Bodies))
             => /\ pc'[p] = "done"
                /\ res'[p].code = "BadRequest"
                /\ pending' = pending
                /\ acct' = acct
                /\ store' = store
          /\ (Arrives(p) /\ req'[p].accountId \in Keys /\ req'[p].xdr.body \in Bodies)
             => /\ pc'[p] = "cr_found"
                /\ acct' = acct
                /\ store' = store
          /\ (pc[p] = "cr_found" /\ Steps(p) /\ acct'[p] # acct[p])
             => /\ SameTransaction(p) = {}
                /\ IsAbsent(pending[p])
                /\ store' = store
          /\ (req[p].op = "create" /\ Steps(p) /\ res'[p].code = "Conflict")
             => /\ pc[p] = "cr_found"
                /\ acct[p] = NoAcct
                /\ acct' = acct
                /\ store' = store]_vars

\* A malformed account id with the envelope of a stored record: BadRequest,
\* not Conflict.
C32_Witness ==
    \E p \in Procs :
        /\ pc[p] = "done"
        /\ req[p].op = "create"
        /\ req[p].accountId = BadKey
        /\ \E id \in Rows : store[id].transactionHash = <<NETWORK, req[p].xdr.body>>
        /\ res[p].code = "BadRequest"
        /\ IsAbsent(pending[p])
        /\ acct[p] = NoAcct

\* What the checks of submitSignature on the record p loaded come to, taken in
\* the order: record exists, status open, signer not yet in signatures,
\* signature verifies.
FirstFailure(p) ==
    IF IsAbsent(pending[p]) THEN "NotFound"
    ELSE IF pending[p].status \in {"SUBMITTED", "EXPIRED", "FAILED"} THEN "BadRequest"
    ELSE IF \E i \in DOMAIN pending[p].signatures :
               pending[p].signatures[i].publicKey = req[p].signerPublicKey
         THEN "Conflict"
    ELSE IF WrongSignature(p) THEN "BadRequest"
    ELSE "passed"

\* C33: submitSignature checks the format of the signer key before it reads
\* the record, then the record in the order exists (NotFound), status
\* (BadRequest), earlier signature of the signer (Conflict), verification
\* (BadRequest), and looks the signer up in the account only after all of
\* these; the first check that fails gives the error, and a request rejected
\* by one of them has loaded no account and written nothing.
C33_SignCheckOrder ==
    [][\A p \in Procs :
          /\ (pc[p] = "idle" /\ Steps(p) /\ req'[p].op = "sign")
             => IF req'[p].signerPublicKey \notin Keys
                THEN /\ pc'[p] = "done"
                     /\ res'[p].code = "BadRequest"
                     /\ pending' = pending
                     /\ acct' = acct
                     /\ store' = store
                ELSE /\ pc'[p] = "sig_loaded"
                     /\ acct' = acct
                     /\ store' = store
          /\ (pc[p] = "sig_loaded" /\ Steps(p))
             => IF FirstFailure(p) # "passed"
                THEN /\ pc'[p] = "done"
                     /\ res'[p].code = FirstFailure(p)
                     /\ acct' = acct
                     /\ store' = store
                ELSE /\ \/ pc'[p] = "sig_acct" /\ acct'[p] # NoAcct
                        \/ pc'[p] = "done" /\ res'[p].code = "NotFound" /\ acct' = acct
                     /\ store' = store
          /\ (pc[p] = "sig_acct" /\ Steps(p))
             => /\ FirstFailure(p) = "passed"
                /\ NotOnAccount(p) => res'[p].code = "BadRequest" /\ store' = store]_vars

\* A wrong signature under the key of a signer that has signed the record
\* already: the earlier check decides, Conflict.
C33_Witness ==
    \E p \in Procs :
        /\ pc[p] = "done"
        /\ req[p].op = "sign"
        /\ ~IsAbsent(pending[p])
        /\ pending[p].status \in {"PENDING", "READY"}
        /\ HasSigned(pending[p].signatures, req[p].signerPublicKey)
        /\ WrongSignature(p)
        /\ res[p].code = "Conflict"
        /\ acct[p] = NoAcct

\* C34: a createPendingTransaction that ends in an error has written nothing
\* in any of its steps; the only step of a creation that writes is the save
\* of the new record, which adds one row, leaves the other rows as they are
\* and takes its threshold and signers from the account the same call loaded.
C34_FailedCreateWritesNothing ==
    [][\A p \in Procs :
          (req[p].op = "create" /\ Steps(p) /\ pc[p] # "done")
          => /\ (pc'[p] = "done" /\ res'[p].code # "OK") => store' = store
             /\ store' # store
                => /\ pc[p] = "cr_acct"
                   /\ res'[p].code = "OK"
                   /\ acct[p] # NoAcct
                   /\ acct[p].signers # <<>>
                   /\ pending'[p].requiredThreshold = acct[p].thresholdMedium
                   /\ \E id \in Ids :
                         /\ store[id].status = "ABSENT"
                         /\ store' = [store EXCEPT ![id] = pending'[p]]
             /\ pc[p] = "cr_found" => store' = store]_vars

\* A creation that failed at the account: NotFound, and the table as empty as
\* it was.
C34_Witness ==
    \E p \in Procs :
        /\ pc[p] = "done"
        /\ req[p].op = "create"
        /\ res[p].code = "NotFound"
        /\ acct[p] = NoAcct
        /\ Rows = {}

\* The keys in the pendingSigners of a record.
Awaited(rec) == {rec.pendingSigners[k] : k \in DOMAIN rec.pendingSigners}

\* C35: no stored record has in pendingSigners a key that has an entry in its
\* signatures; an accepted submitSignature leaves the record without the
\* signer in pendingSigners; and the pendingSigners of a stored record never
\* gain a key.
C35_PendingSignersShrink ==
    /\ [](\A id \in Rows :
             \A i \in DOMAIN store[id].signatures :
                store[id].signatures[i].publicKey \notin Awaited(store[id]))
    /\ [][/\ \A p \in Procs :
                Accepts(p) => req[p].signerPublicKey \notin Awaited(store'[req[p].id])
          /\ \A id \in Rows : Awaited(store'[id]) \subseteq Awaited(store[id])]_vars

\* The signer of the account p loaded that has the key given and made the
\* decorated signature given over the transaction of p's envelope.
Vouches(p, key, dsig) ==
    /\ \E i \in DOMAIN acct[p].signers : acct[p].signers[i].publicKey = key
    /\ dsig.hint = signatureHint(key)
    /\ dsig.signature.by = key
    /\ dsig.signature.over = <<NETWORK, req[p].xdr.body>>

\* C36: every entry of the signatures of a record createPendingTransaction
\* stores comes from a decorated signature of the envelope that carries the
\* hint of a signer of the account and verifies under that signer's key, and
\* has that signer's weight; a decorated signature no signer of the account
\* vouches for leaves no entry; and whatever signatures the envelope carries,
\* the creation that got as far as the account stores its record.
C36_OnlyVerifiedSignersCount ==
    [][\A p \in Procs :
          /\ Creates(p)
             => LET saved == pending'[p]
                    dsigs == req[p].xdr.sigs
                IN  /\ \A k \in DOMAIN saved.signatures :
                          LET entry == saved.signatures[k]
                          IN  /\ \E i \in DOMAIN dsigs :
                                    /\ dsigs[i].signature = entry.signature
                                    /\ Vouches(p, entry.publicKey, dsigs[i])
                              /\ \E i \in DOMAIN acct[p].signers :
                                    acct[p].signers[i] =
                                        [publicKey |-> entry.publicKey,
                                         weight |-> entry.weight]
                    /\ \A i \in DOMAIN dsigs :
                          (\A key \in Keys : ~Vouches(p, key, dsigs[i]))
                          => \A k \in DOMAIN saved.signatures :
                                saved.signatures[k].signature # dsigs[i].signature
                    /\ Cardinality({i \in DOMAIN dsigs :
                                      \E key \in Keys : Vouches(p, key, dsigs[i])})
                           = Len(saved.signatures)
          /\ (pc[p] = "cr_acct" /\ Steps(p))
             => pc'[p] = "done" /\ res'[p].code = "OK"]_vars

\* An envelope signed by K3, whose hint is that of K1, and by K1: the record
\* holds the entry of K1 alone.
C36_Witness ==
    \E p \in Procs :
        /\ pc[p] = "done"
        /\ req[p].op = "create"
        /\ res[p].code = "OK"
        /\ Len(req[p].xdr.sigs) = 2
        /\ req[p].xdr.sigs[1].signature.by = "K3"
        /\ req[p].xdr.sigs[1].hint = req[p].xdr.sigs[2].hint
        /\ req[p].xdr.sigs[2].signature.by = "K1"
        /\ Len(pending[p].signatures) = 1
        /\ pending[p].signatures[1].publicKey = "K1"
        /\ pending[p].collectedWeight = pending[p].signatures[1].weight
        /\ store[pending[p].id] = pending[p]

\* C37: an accepted submitSignature leaves the stored envelope as it was
\* stored before, with the same transaction and so the same hash, plus one
\* decorated signature at the end, which carries the hint of the signer and
\* the signature posted; and the envelope a submitToNetwork broadcasts is the
\* envelope stored at that moment.
C37_EnvelopeGrowsByOne ==
    [][\A p \in Procs :
          /\ Accepts(p)
             => LET before == store[req[p].id].transactionXdr
                    after == store'[req[p].id].transactionXdr
                IN  /\ after.body = before.body
                    /\ store'[req[p].id].transactionHash = store[req[p].id].transactionHash
                    /\ Len(after.sigs) = Len(before.sigs) + 1
                    /\ \A i \in DOMAIN before.sigs : after.sigs[i] = before.sigs[i]
                    /\ after.sigs[Len(after.sigs)].signature = req[p].signature
                    /\ after.sigs[Len(after.sigs)].hint
                           = (IF req[p].signerPublicKey = "K2" THEN "hint2" ELSE "hint1")
          /\ (pc[p] = "sub_loaded" /\ pc'[p] = "sub_sent")
             => pending[p].transactionXdr = store[req[p].id].transactionXdr]_vars

\* C39: createPendingTransaction stores its record without an
\* expiresAtLedger and no operation sets one afterwards, so a sweep leaves
\* every record without one as it is and returns 0 when no record has one;
\* no record without an expiresAtLedger is ever EXPIRED.
C39_CreatedRecordsNeverExpire ==
    /\ [](\A id \in Rows :
             store[id].status = "EXPIRED" => store[id].expiresAtLedger # <<>>)
    /\ [][/\ \A id \in Rows : store'[id].expiresAtLedger = store[id].expiresAtLedger
          /\ \A p \in Procs :
                /\ Creates(p) => pending'[p].expiresAtLedger = <<>>
                /\ Sweeps(p)
                   => /\ \A id \in Rows :
                            store[id].expiresAtLedger = <<>> => store'[id] = store[id]
                      /\ (\A id \in Rows : store[id].expiresAtLedger = <<>>)
                         => res'[p].affected = 0 /\ store' = store]_vars

\* A sweep at the last ledger over a table that holds a record the service
\* created: nothing expired.
C39_Witness ==
    \E p \in Procs :
        /\ pc[p] = "done"
        /\ req[p].op = "expire"
        /\ req[p].currentLedger = MaxLedger
        /\ res[p].affected = 0
        /\ Rows # {}
        /\ \A id \in Rows :
              /\ store[id].expiresAtLedger = <<>>
              /\ store[id].status \in {"PENDING", "READY"}

\* C40: a createPendingTransaction for a transaction that a stored record
\* holds throws Conflict naming that record and stores nothing, whatever the
\* account, the status and the attached signatures of the stored record and
\* of the request.
C40_DuplicateByBodyAlone ==
    [][\A p \in Procs :
          /\ (/\ Arrives(p)
              /\ req'[p].accountId \in Keys
              /\ req'[p].xdr.body \in Bodies
              /\ \E id \in Rows : store[id].transactionXdr.body = req'[p].xdr.body)
             => pc'[p] = "cr_found"
          /\ (/\ pc[p] = "cr_found"
              /\ Steps(p)
              /\ \E id \in Rows : store[id].transactionXdr.body = req[p].xdr.body)
             => /\ pc'[p] = "done"
                /\ res'[p].code = "Conflict"
                /\ store[res'[p].existingId].transactionXdr.body = req[p].xdr.body
                /\ store' = store]_vars

\* A request of account K2 with an envelope K1 pre-signed, refused for the
\* SUBMITTED record of account K1 that holds the transaction with other
\* signatures.
C40_Witness ==
    \E p \in Procs :
        /\ pc[p] = "done"
        /\ req[p].op = "create"
        /\ res[p].code = "Conflict"
        /\ store[res[p].existingId].status = "SUBMITTED"
        /\ store[res[p].existingId].accountId # req[p].accountId
        /\ store[res[p].existingId].transactionXdr # req[p].xdr
        /\ store[res[p].existingId].transactionXdr.body = req[p].xdr.body

====
